---- MODULE Spec2Model ----
(***************************************************************************)
(* A model of csv-to-pta.py: the conversion of CSV rows into ledger        *)
(* entries, with the hash log (dedup), the learned payee dictionary and    *)
(* the three persisted artifacts (ledger, hash log, payee file).           *)
(*                                                                         *)
(* Text is modelled by TLA+ strings; a file is the sequence of the chunks  *)
(* written to it (ledger: template lines and entry blocks; hash log and    *)
(* payee file: lines without their newline).                               *)
(***************************************************************************)
EXTENDS Integers, Sequences, FiniteSets, TLC

(***************************************************************************)
(* Bounds of the model.                                                    *)
(***************************************************************************)
MaxRows == 2
MaxRuns == 2

(***************************************************************************)
(* Characters and the str methods the program uses.                        *)
(***************************************************************************)
LowerChars == "abcdefghijklmnopqrstuvwxyz"
UpperChars == "ABCDEFGHIJKLMNOPQRSTUVWXYZ"
DigitChars == "0123456789"

CharAt(s, i) == SubSeq(s, i, i)

CharsOf(chars) == {CharAt(chars, i) : i \in 1..Len(chars)}

Letters == CharsOf(LowerChars) \cup CharsOf(UpperChars)
Digits == CharsOf(DigitChars)

IsLetter(c) == c \in Letters
IsDigit(c) == c \in Digits
IsSpace(c) == c \in {" ", "\t", "\n", "\r"}
IsWord(c) == IsLetter(c) \/ IsDigit(c) \/ c = "_"

\* the lower-case letter of every upper-case letter
ToLower ==
    [c \in CharsOf(UpperChars) |->
        CharAt(LowerChars, CHOOSE j \in 1..Len(UpperChars) : CharAt(UpperChars, j) = c)]

LowerChar(c) == IF c \in DOMAIN ToLower THEN ToLower[c] ELSE c

RECURSIVE str_lower(_)
str_lower(s) ==
    IF s = "" THEN "" ELSE LowerChar(CharAt(s, 1)) \o str_lower(SubSeq(s, 2, Len(s)))

RECURSIVE LStrip(_)
LStrip(s) ==
    IF s # "" /\ IsSpace(CharAt(s, 1)) THEN LStrip(SubSeq(s, 2, Len(s))) ELSE s

RECURSIVE RStrip(_)
RStrip(s) ==
    IF s # "" /\ IsSpace(CharAt(s, Len(s))) THEN RStrip(SubSeq(s, 1, Len(s) - 1)) ELSE s

str_strip(s) == RStrip(LStrip(s))

\* p in s : substring containment (the empty string is in every string)
str_contains(p, s) ==
    \/ p = ""
    \/ \E i \in 1..(Len(s) - Len(p) + 1) : SubSeq(s, i, i + Len(p) - 1) = p

RECURSIVE str_replace(_, _, _)
str_replace(s, old, new) ==
    IF s = "" THEN ""
    ELSE (IF CharAt(s, 1) = old THEN new ELSE CharAt(s, 1))
         \o str_replace(SubSeq(s, 2, Len(s)), old, new)

RECURSIVE str_join(_, _)
str_join(sep, parts) ==
    IF parts = <<>> THEN ""
    ELSE IF Len(parts) = 1 THEN parts[1]
    ELSE parts[1] \o sep \o str_join(sep, Tail(parts))

(***************************************************************************)
(* The three substitutions of the payee cleaner.                           *)
(***************************************************************************)
\* length of the run of digits of s that starts at position i
RECURSIVE DigitRun(_, _)
DigitRun(s, i) ==
    IF i <= Len(s) /\ IsDigit(CharAt(s, i)) THEN 1 + DigitRun(s, i + 1) ELSE 0

\* re.sub(r"(?<![a-zA-Z])[0-9]+(?![a-zA-Z])", "", s), scanning from position i:
\* the greedy run gives back one digit when a letter follows it
RECURSIVE SubNumbers(_, _)
SubNumbers(s, i) ==
    IF i > Len(s) THEN ""
    ELSE LET n == DigitRun(s, i)
             behind == i = 1 \/ ~IsLetter(CharAt(s, i - 1))
             ahead == i + n > Len(s) \/ ~IsLetter(CharAt(s, i + n))
             m == IF n = 0 \/ ~behind THEN 0
                  ELSE IF ahead THEN n
                  ELSE n - 1
         IN  IF m = 0 THEN CharAt(s, i) \o SubNumbers(s, i + 1)
             ELSE SubNumbers(s, i + m)

\* re.sub(r"[^\w\s]", "", s)
RECURSIVE SubPunctuation(_)
SubPunctuation(s) ==
    IF s = "" THEN ""
    ELSE (IF IsWord(CharAt(s, 1)) \/ IsSpace(CharAt(s, 1)) THEN CharAt(s, 1) ELSE "")
         \o SubPunctuation(SubSeq(s, 2, Len(s)))

\* re.sub(r"\s+", " ", s)
RECURSIVE SubSpaces(_)
SubSpaces(s) ==
    IF s = "" THEN ""
    ELSE IF IsSpace(CharAt(s, 1))
         THEN " " \o SubSpaces(LStrip(s))
         ELSE CharAt(s, 1) \o SubSpaces(SubSeq(s, 2, Len(s)))

(***************************************************************************)
(* Numbers and dates: float(), repr of a float, strptime and strftime on   *)
(* the plain decimal and year-month-day texts the rows hold.               *)
(***************************************************************************)
DigitValue == [c \in Digits |-> (CHOOSE j \in 1..Len(DigitChars) : CharAt(DigitChars, j) = c) - 1]

DigitVal(c) == DigitValue[c]

IsDigits(s) == s # "" /\ \A i \in 1..Len(s) : IsDigit(CharAt(s, i))

RECURSIVE ToNat(_)
ToNat(s) ==
    IF s = "" THEN 0
    ELSE 10 * ToNat(SubSeq(s, 1, Len(s) - 1)) + DigitVal(CharAt(s, Len(s)))

RECURSIVE NatToStr(_)
NatToStr(n) ==
    IF n < 10 THEN CharAt(DigitChars, n + 1)
    ELSE NatToStr(n \div 10) \o CharAt(DigitChars, (n % 10) + 1)

RECURSIVE ZeroPad(_, _)
ZeroPad(s, width) == IF Len(s) >= width THEN s ELSE ZeroPad("0" \o s, width)

\* the position of the first occurrence of character c in s, 0 when there is none
RECURSIVE FindChar(_, _, _)
FindChar(s, c, i) ==
    IF i > Len(s) THEN 0
    ELSE IF CharAt(s, i) = c THEN i
    ELSE FindChar(s, c, i + 1)

RECURSIVE str_split(_, _)
str_split(s, sep) ==
    LET i == FindChar(s, sep, 1)
    IN  IF i = 0 THEN <<s>>
        ELSE <<SubSeq(s, 1, i - 1)>> \o str_split(SubSeq(s, i + 1, Len(s)), sep)

RECURSIVE StripLeadingZeros(_)
StripLeadingZeros(s) ==
    IF Len(s) > 1 /\ CharAt(s, 1) = "0" THEN StripLeadingZeros(SubSeq(s, 2, Len(s))) ELSE s

RECURSIVE StripTrailingZeros(_)
StripTrailingZeros(s) ==
    IF Len(s) > 1 /\ CharAt(s, Len(s)) = "0"
    THEN StripTrailingZeros(SubSeq(s, 1, Len(s) - 1))
    ELSE s

\* float(s) followed by the f-string rendering of the float, for plain decimals
\* [-]digits[.digits]; "ValueError" stands for the exception float() raises
ValueError == "ValueError"

FloatRepr(s) ==
    LET neg == s # "" /\ CharAt(s, 1) = "-"
        body == IF neg THEN SubSeq(s, 2, Len(s)) ELSE s
        dot == FindChar(body, ".", 1)
        ip == IF dot = 0 THEN body ELSE SubSeq(body, 1, dot - 1)
        fp == IF dot = 0 THEN "" ELSE SubSeq(body, dot + 1, Len(body))
        wellFormed == /\ ip = "" \/ IsDigits(ip)
                      /\ fp = "" \/ IsDigits(fp)
                      /\ ip # "" \/ fp # ""
    IN  IF ~wellFormed THEN ValueError
        ELSE (IF neg THEN "-" ELSE "")
             \o StripLeadingZeros(IF ip = "" THEN "0" ELSE ip)
             \o "." \o StripTrailingZeros(IF fp = "" THEN "0" ELSE fp)

date_format == "%Y-%m-%d"

DaysInMonth(y, m) ==
    IF m = 2 THEN (IF (y % 4 = 0 /\ y % 100 # 0) \/ y % 400 = 0 THEN 29 ELSE 28)
    ELSE IF m \in {4, 6, 9, 11} THEN 30
    ELSE 31

\* datetime.strptime(s, date_format).strftime("%Y/%m/%d") for a format of the
\* shape %Y<sep>%m<sep>%d; "ValueError" when strptime raises
NormalizeDate(s) ==
    LET parts == str_split(s, CharAt(date_format, 3))
        shaped == /\ Len(parts) = 3
                  /\ IsDigits(parts[1]) /\ Len(parts[1]) = 4
                  /\ IsDigits(parts[2]) /\ Len(parts[2]) <= 2
                  /\ IsDigits(parts[3]) /\ Len(parts[3]) <= 2
        y == ToNat(parts[1])
        m == ToNat(parts[2])
        d == ToNat(parts[3])
    IN  IF shaped /\ y >= 1 /\ m \in 1..12 /\ d \in 1..DaysInMonth(y, m)
        THEN ZeroPad(NatToStr(y), 4) \o "/" \o ZeroPad(NatToStr(m), 2)
             \o "/" \o ZeroPad(NatToStr(d), 2)
        ELSE ValueError

(***************************************************************************)
(* Configuration (the parsed command line).  The columns are 1-based as on *)
(* the command line; the options that vary are in the record args.         *)
(***************************************************************************)
date_col == 1
payee_col == <<2>>
amount_col == 3
account == "Assets:Checking"
encoding == "utf-8"

Configs ==
    { [clean |-> TRUE, begin |-> 0, replace_comma |-> TRUE, skip |-> FALSE],
      [clean |-> FALSE, begin |-> 2, replace_comma |-> FALSE, skip |-> FALSE] }

(***************************************************************************)
(* The inputs: rows as csv.reader yields them, whole input files, the      *)
(* answers typed at the prompt, the payee files and the config templates   *)
(* found before the first run.                                             *)
(***************************************************************************)
Rows ==
    { <<"2024-01-05", "ab", "1">>,
      <<"2024-1-5", "AB 12", "1,0">>,
      <<" 2024-01-05", "cd", "2">>,
      <<"2024-01-05", "ab", "">>,
      <<"junk", "ab", "1">>,
      <<"2024-01-05", " ">>,
      <<" ", "", "x">>,
      <<>> }

RECURSIVE SeqsUpTo(_, _)
SeqsUpTo(S, n) ==
    IF n = 0 THEN {<<>>}
    ELSE LET shorter == SeqsUpTo(S, n - 1)
         IN  shorter \cup {Append(q, e) : q \in shorter, e \in S}

Files == SeqsUpTo(Rows, MaxRows)

Responses == {"", "stop", "Stop", "b"}

PayeeFiles == { <<>>, <<"b", "a ", "ab">> }

NoConfig == [exists |-> FALSE, lines |-> <<>>]
Template == [exists |-> TRUE, lines |-> <<"; ledger\n", "account Assets:Checking\n">>]
ConfigFiles == { NoConfig, Template, [exists |-> TRUE, lines |-> <<"; edited\n">>] }

(***************************************************************************)
(* The per-row pipeline, as pure functions of the row.                     *)
(***************************************************************************)
\* line 193: the payee columns that exist in the row, stripped and joined
RECURSIVE PayeeParts(_, _)
PayeeParts(row, cols) ==
    IF cols = <<>> THEN <<>>
    ELSE (IF Head(cols) - 1 < Len(row) THEN <<str_strip(row[Head(cols)])>> ELSE <<>>)
         \o PayeeParts(row, Tail(cols))

RawPayee(row) == str_join(" ", PayeeParts(row, payee_col))

\* lines 198-214; NFKD decomposition leaves the ASCII text of the rows unchanged
CleanPayee(a, raw_payee) ==
    IF a.clean
    THEN str_strip(SubSpaces(SubPunctuation(SubNumbers(str_lower(raw_payee), 1))))
    ELSE raw_payee

\* lines 216-220: the scan assigns the matching candidate to payee and goes on,
\* so that the next candidates are tested against the assigned value
\* a scan that stops at the first matching candidate
RECURSIVE ScanToFirst(_, _)
ScanToFirst(ps, payee) ==
    IF ps = <<>> THEN [payee |-> payee, found |-> FALSE]
    ELSE IF str_contains(Head(ps), payee) THEN [payee |-> Head(ps), found |-> TRUE]
    ELSE ScanToFirst(Tail(ps), payee)

MatchPayeeFirst(ps, payee) == ScanToFirst(ps, payee)

RECURSIVE ScanPayees(_, _, _)
ScanPayees(ps, payee, found) ==
    IF ps = <<>> THEN [payee |-> payee, found |-> found]
    ELSE IF str_contains(Head(ps), payee)
         THEN ScanPayees(Tail(ps), Head(ps), TRUE)
         ELSE ScanPayees(Tail(ps), payee, found)

MatchPayee(ps, payee) == ScanPayees(ps, payee, FALSE)

\* lines 231-233
RECURSIVE KeepAmountChars(_)
KeepAmountChars(s) ==
    IF s = "" THEN ""
    ELSE (IF IsDigit(CharAt(s, 1)) \/ CharAt(s, 1) \in {".", "-"} THEN CharAt(s, 1) ELSE "")
         \o KeepAmountChars(SubSeq(s, 2, Len(s)))

\* lines 230-238: the amount as the entry prints it, or ValueError
ParseAmount(a, field) ==
    LET amount == str_strip(field)
    IN  FloatRepr(IF a.replace_comma
                  THEN KeepAmountChars(str_replace(amount, ",", "."))
                  ELSE amount)

\* lines 242-244
EntryText(date, payee, amount) ==
    date \o " " \o payee \o "\n\t" \o account \o "  " \o amount
         \o "\n\tExpenses:Unknown\n\n"

\* sha256(entry).hexdigest(): a digest is modelled by a text that determines the
\* entry (no two entries of the model collide)
compute_hash(entry) == "sha256<" \o entry \o ">"

\* the sentinels compared without regard to case
SentinelsAnyCase == {"quit", "exit", "stop", "Quit", "Exit", "Stop"}

\* line 225
Sentinels == {"quit", "exit", "stop"}

(***************************************************************************)
(* Sorting by descending length.                                           *)
(***************************************************************************)
IsLongestFirst(ps) == \A i \in 1..(Len(ps) - 1) : Len(ps[i]) >= Len(ps[i + 1])

\* the position after the elements of ps that are at least as long as p
RECURSIVE InsertAfterLonger(_, _)
InsertAfterLonger(ps, p) ==
    IF ps = <<>> THEN <<p>>
    ELSE IF Len(Head(ps)) >= Len(p) THEN <<Head(ps)>> \o InsertAfterLonger(Tail(ps), p)
    ELSE <<p>> \o ps

\* sorted(ps, key=len, reverse=True) of a list: stable
RECURSIVE SortedByLength(_)
SortedByLength(ps) ==
    IF ps = <<>> THEN <<>>
    ELSE InsertAfterLonger(SortedByLength(SubSeq(ps, 1, Len(ps) - 1)), ps[Len(ps)])

Range(q) == {q[i] : i \in 1..Len(q)}

\* every sequence that lists the elements of S once each
RECURSIVE Orders(_)
Orders(S) ==
    IF S = {} THEN {<<>>}
    ELSE UNION { {<<e>> \o q : q \in Orders(S \ {e})} : e \in S }

\* sorted(S, key=len, reverse=True) of a set: among strings of one length the
\* order is the set's iteration order, which the program does not determine
SortedOrders(S) == { ps \in Orders(S) : IsLongestFirst(ps) }

\* the payees of the file in the iteration order of the set, not sorted
read_payee_unsorted(lines) == Orders({str_strip(l) : l \in Range(lines)})

\* read_payee, lines 21-26 (a missing file reads as no lines)
read_payee(lines) == SortedOrders({str_strip(l) : l \in Range(lines)})

\* the lines of the hash log taken with their newline
read_existing_hashes_unstripped(lines) == {l \o "\n" : l \in Range(lines)}

\* read_existing_hashes, lines 13-18
read_existing_hashes(lines) == {str_strip(l) : l \in Range(lines)}

(***************************************************************************)
(* What one row leads to.  An outcome says where the row's processing      *)
(* ends or waits: "skip" (lines 173-183), "fatal" (exit(1) at lines 190,   *)
(* 196, 238), "error" (an uncaught IndexError at line 180 or 230), "ask"   *)
(* (the prompt at line 223), "dup" (line 252) or "emit" (line 254).        *)
(***************************************************************************)
Outcome(kind, why, date, payee, entry, hash) ==
    [kind |-> kind, why |-> why, date |-> date, payee |-> payee,
     entry |-> entry, hash |-> hash]

\* "IndexError" stands for the exception of row[i] when the row is too short
IndexError == "IndexError"

\* what lines 180-214 and 230-235 make of the fields of a row: the stripped
\* date field and the date in canonical form, the raw and the cleaned payee,
\* and the amount as the entry prints it
RowView(a, row) ==
    LET field == IF date_col - 1 >= Len(row) THEN IndexError ELSE str_strip(row[date_col])
        raw_payee == RawPayee(row)
    IN  [date_field |-> field,
         date |-> IF field \in {"", IndexError} THEN field ELSE NormalizeDate(field),
         raw_payee |-> raw_payee,
         payee |-> CleanPayee(a, raw_payee),
         amount |-> IF amount_col - 1 >= Len(row) THEN IndexError
                    ELSE ParseAmount(a, row[amount_col])]

\* the views of the rows of the model, computed once
RowViews == [a \in Configs |-> [row \in Rows |-> RowView(a, row)]]

\* an unparsable amount treated as one more reason to skip the row
Resolved_SkipBadAmount(a, hashes, row, date, payee) ==
    LET amount == RowViews[a][row].amount
    IN  IF amount = IndexError THEN Outcome("error", "amount", date, payee, "", "")
        ELSE IF amount = ValueError THEN Outcome("skip", "amount", date, payee, "", "")
        ELSE LET entry == EntryText(date, payee, amount)
                 entry_hash == compute_hash(entry)
             IN  IF entry_hash \in hashes
                 THEN Outcome("dup", "", date, payee, entry, entry_hash)
                 ELSE Outcome("emit", "", date, payee, entry, entry_hash)

\* lines 230-254: from the amount to the dedup check, the payee being settled
Resolved(a, hashes, row, date, payee) ==
    LET amount == RowViews[a][row].amount
    IN  IF amount = IndexError THEN Outcome("error", "amount", date, payee, "", "")
        ELSE IF amount = ValueError THEN Outcome("fatal", "amount", date, payee, "", "")
        ELSE LET entry == EntryText(date, payee, amount)
                 entry_hash == compute_hash(entry)
             IN  IF entry_hash \in hashes
                 THEN Outcome("dup", "", date, payee, entry, entry_hash)
                 ELSE Outcome("emit", "", date, payee, entry, entry_hash)

\* the amount validated right after the payee, before the scan and the prompt
Scanned_AmountFirst(a, ps, row, rn) ==
    LET v == RowViews[a][row]
        m == MatchPayee(ps, v.payee)
    IN  IF row = <<>> THEN Outcome("skip", "row", "", "", "", "")
        ELSE IF rn < a.begin THEN Outcome("skip", "begin", "", "", "", "")
        ELSE IF v.date_field = IndexError THEN Outcome("error", "date", "", "", "", "")
        ELSE IF v.date_field = "" THEN Outcome("skip", "date", "", "", "", "")
        ELSE IF v.date = ValueError THEN Outcome("fatal", "date", "", "", "", "")
        ELSE IF v.raw_payee = "" THEN Outcome("fatal", "payee", v.date, "", "", "")
        ELSE IF v.amount = ValueError THEN Outcome("fatal", "amount", v.date, "", "", "")
        ELSE IF m.found THEN Outcome("found", "", v.date, m.payee, "", "")
        ELSE Outcome("ask", "", v.date, m.payee, "", "")

\* the start offset looked at only after the date and the payee were validated
Scanned_OffsetLast(a, ps, row, rn) ==
    LET v == RowViews[a][row]
        m == MatchPayee(ps, v.payee)
    IN  IF row = <<>> THEN Outcome("skip", "row", "", "", "", "")
        ELSE IF v.date_field = IndexError THEN Outcome("error", "date", "", "", "", "")
        ELSE IF v.date_field = "" THEN Outcome("skip", "date", "", "", "", "")
        ELSE IF v.date = ValueError THEN Outcome("fatal", "date", "", "", "", "")
        ELSE IF v.raw_payee = "" THEN Outcome("fatal", "payee", v.date, "", "", "")
        ELSE IF rn < a.begin THEN Outcome("skip", "begin", "", "", "", "")
        ELSE IF m.found THEN Outcome("found", "", v.date, m.payee, "", "")
        ELSE Outcome("ask", "", v.date, m.payee, "", "")

\* lines 173-222: from the top of the loop body to the dictionary scan; "found"
\* when a candidate matched, "ask" when the prompt is next
Scanned(a, ps, row, rn) ==
    LET v == RowViews[a][row]
        m == MatchPayee(ps, v.payee)
    IN  IF row = <<>> THEN Outcome("skip", "row", "", "", "", "")
        ELSE IF rn < a.begin THEN Outcome("skip", "begin", "", "", "", "")
        ELSE IF v.date_field = IndexError THEN Outcome("error", "date", "", "", "", "")
        ELSE IF v.date_field = "" THEN Outcome("skip", "date", "", "", "", "")
        ELSE IF v.date = ValueError THEN Outcome("fatal", "date", "", "", "", "")
        ELSE IF v.raw_payee = "" THEN Outcome("fatal", "payee", v.date, "", "", "")
        ELSE IF m.found THEN Outcome("found", "", v.date, m.payee, "", "")
        ELSE Outcome("ask", "", v.date, m.payee, "", "")

(***************************************************************************)
(* State.                                                                  *)
(***************************************************************************)
VARIABLES
    ledger_file,      \* the ledger on disk: the chunks written and flushed
    hash_file,        \* the hash log on disk: its lines
    payee_file,       \* the payee file on disk: its lines
    config_file,      \* the config template: whether it exists, and its lines
    args,             \* the options of the command line, the same for every run
    pc,               \* "idle", "rows", "input", "hash", "finalize"
    reader,           \* the rows the csv reader has not yielded yet
    row_num,          \* the number of the row last yielded
    existing_hashes,  \* the in-memory set of hashes
    payees,           \* the in-memory payee list
    out,              \* written to the ledger and not yet flushed
    hash_out,         \* written to the hash log and not yet flushed
    cur,              \* the row in progress and what the pipeline made of it
    status,           \* the exit status of the last run, -1 before any exit
    \* history, for the statements of the properties
    runs,             \* the number of runs started
    file,             \* the input file of the current (or last) run
    same_input,       \* this run reads the file the previous run read
    ended,            \* how the last run ended; "running", "none"
    prev_ended,       \* how the run before this one ended
    ledger0,          \* the artifacts as this run found them
    hash0,
    payee0,
    learned,          \* the payees appended by this run
    accepted,         \* the entries written by this run, with their row numbers
    answers,          \* every <<cleaned payee, response>> of a prompt so far
    template_writes,  \* how often this run wrote the template
    payee_writes      \* how often this run wrote the payee file

artifacts == <<ledger_file, hash_file, payee_file, config_file>>
process == <<pc, reader, row_num, existing_hashes, payees, out, hash_out, cur, status>>
history == <<runs, file, same_input, ended, prev_ended, ledger0, hash0, payee0,
             learned, accepted, answers, template_writes, payee_writes>>
vars == <<artifacts, args, process, history>>

\* no answer was asked for (a text that is no answer of the model)
NoInput == "(none)"

NoCur == [row |-> <<>>, cleaned |-> "", found |-> FALSE, input |-> NoInput,
          o |-> Outcome("none", "", "", "", "", "")]

Init ==
    /\ ledger_file = <<>>
    /\ hash_file = <<>>
    /\ payee_file \in PayeeFiles
    /\ config_file \in {NoConfig, Template}
    /\ args \in Configs
    /\ pc = "idle"
    /\ reader = <<>>
    /\ row_num = 0
    /\ existing_hashes = {}
    /\ payees = <<>>
    /\ out = <<>>
    /\ hash_out = <<>>
    /\ cur = NoCur
    /\ status = -1
    /\ runs = 0
    /\ file = <<>>
    /\ same_input = FALSE
    /\ ended = "none"
    /\ prev_ended = "none"
    /\ ledger0 = <<>>
    /\ hash0 = <<>>
    /\ payee0 = payee_file
    /\ learned = <<>>
    /\ accepted = <<>>
    /\ answers = {}
    /\ template_writes = 0
    /\ payee_writes = 0

(***************************************************************************)
(* Lines 143-168: the start of a run, up to the first row.                 *)
(***************************************************************************)
\* the template written whatever the ledger holds
TemplateDumpAlways(ledger, config) == IF config.exists THEN config.lines ELSE <<>>

\* lines 158-162: what the run writes to the ledger before the first row
TemplateDump(ledger, config) ==
    IF ledger = <<>> /\ config.exists THEN config.lines ELSE <<>>

StartRun ==
    /\ pc = "idle"
    /\ runs < MaxRuns
    /\ existing_hashes' = read_existing_hashes(hash_file)
    /\ payees' \in read_payee(payee_file)
    /\ out' = TemplateDump(ledger_file, config_file)
    /\ hash_out' = <<>>
    /\ row_num' = 0
    /\ pc' = "rows"
    /\ cur' = NoCur
    /\ status' = -1
    /\ runs' = runs + 1
    /\ ended' = "running"
    /\ prev_ended' = ended
    /\ ledger0' = ledger_file
    /\ hash0' = hash_file
    /\ payee0' = payee_file
    /\ learned' = <<>>
    /\ accepted' = <<>>
    /\ template_writes' = IF ledger_file = <<>> /\ config_file.exists THEN 1 ELSE 0
    /\ payee_writes' = 0
    /\ \E f \in Files :
           /\ file' = f
           /\ reader' = (IF args.skip /\ f # <<>> THEN Tail(f) ELSE f)
           /\ same_input' = (runs >= 1 /\ f = file)
    /\ UNCHANGED <<artifacts, args, answers>>

(***************************************************************************)
(* The ways a row's processing ends.                                       *)
(***************************************************************************)
\* the files opened for writing instead of appending: what they held is gone
CloseFilesTruncated ==
    /\ ledger_file' = out
    /\ hash_file' = hash_out
    /\ out' = <<>>
    /\ hash_out' = <<>>

\* leaving the with block (line 157): both files are flushed and closed
CloseFiles ==
    /\ ledger_file' = ledger_file \o out
    /\ hash_file' = hash_file \o hash_out
    /\ out' = <<>>
    /\ hash_out' = <<>>

\* an exit that does not unwind the with block: what the buffers hold is lost
AbortWithoutClosing(how) ==
    /\ out' = <<>>
    /\ hash_out' = <<>>
    /\ pc' = "idle"
    /\ status' = 1
    /\ ended' = how
    /\ UNCHANGED <<artifacts, existing_hashes, accepted, payee_writes>>

\* exit(1), or an uncaught exception: the with block closes the files on the
\* way out, line 258 is not reached
Abort(how) ==
    /\ CloseFiles
    /\ pc' = "idle"
    /\ status' = 1
    /\ ended' = how
    /\ UNCHANGED <<payee_file, config_file, existing_hashes, accepted, payee_writes>>

\* continue (lines 175, 178, 183, 252)
NextIteration ==
    /\ pc' = "rows"
    /\ UNCHANGED <<artifacts, existing_hashes, out, hash_out, status, ended,
                   accepted, payee_writes>>

\* line 254
WriteEntry(o, rn) ==
    /\ out' = Append(out, o.entry)
    /\ pc' = "hash"
    /\ accepted' = Append(accepted, [row |-> rn, entry |-> o.entry])
    /\ UNCHANGED <<artifacts, existing_hashes, hash_out, status, ended, payee_writes>>

\* the effect of an outcome that needs no answer from the prompt
Settle(o, rn) ==
    CASE o.kind \in {"skip", "dup"} -> NextIteration
      [] o.kind = "emit" -> WriteEntry(o, rn)
      [] o.kind = "fatal" -> Abort("fatal")
      [] o.kind = "error" -> Abort("error")

(***************************************************************************)
(* Lines 170-222 (and on to 254 when a payee matched): one row.            *)
(***************************************************************************)
ProcessRow ==
    /\ pc = "rows"
    /\ reader # <<>>
    /\ LET row == Head(reader)
           s == Scanned(args, payees, row, row_num + 1)
           o == IF s.kind = "found"
                THEN Resolved(args, existing_hashes, row, s.date, s.payee)
                ELSE s
       IN  /\ reader' = Tail(reader)
           /\ row_num' = row_num + 1
           /\ cur' = [row |-> row,
                      cleaned |-> IF s.kind \in {"found", "ask"}
                                  THEN RowViews[args][row].payee
                                  ELSE "",
                      found |-> s.kind = "found",
                      input |-> NoInput,
                      o |-> o]
           /\ IF o.kind = "ask"
              THEN /\ pc' = "input"
                   /\ UNCHANGED <<artifacts, existing_hashes, out, hash_out, status,
                                  ended, accepted, payee_writes>>
              ELSE Settle(o, row_num + 1)
    /\ UNCHANGED <<args, payees, runs, file, same_input, prev_ended, ledger0, hash0,
                   payee0, learned, answers, template_writes>>

(***************************************************************************)
(* Lines 223-254: the answer to the prompt, and the rest of the row.       *)
(***************************************************************************)
\* line 226: break leaves the loop and the with block
Break ==
    /\ CloseFiles
    /\ pc' = "finalize"
    /\ ended' = "stopped"
    /\ UNCHANGED <<payee_file, config_file, existing_hashes, status, accepted,
                   payee_writes>>

\* the answer taken as the payee without the test of line 224: an empty answer
\* is learned like any other
RespondLearnsEmpty(payee_input) ==
    /\ pc = "input"
    /\ answers' = answers \cup {<<cur.o.payee, payee_input>>}
    /\ IF payee_input \in Sentinels
       THEN /\ Break
            /\ cur' = [cur EXCEPT !.input = payee_input]
            /\ UNCHANGED <<payees, learned>>
       ELSE LET o == Resolved(args, existing_hashes, cur.row, cur.o.date, payee_input)
            IN  /\ payees' = Append(payees, payee_input)
                /\ learned' = Append(learned, payee_input)
                /\ cur' = [cur EXCEPT !.o = o, !.input = payee_input]
                /\ Settle(o, row_num)
    /\ UNCHANGED <<args, reader, row_num, runs, file, same_input, prev_ended, ledger0,
                   hash0, payee0, template_writes>>

Respond(payee_input) ==
    /\ pc = "input"
    /\ answers' = answers \cup {<<cur.o.payee, payee_input>>}
    /\ IF payee_input # "" /\ payee_input \in Sentinels
       THEN /\ Break
            /\ cur' = [cur EXCEPT !.input = payee_input]
            /\ UNCHANGED <<payees, learned>>
       ELSE LET payee == IF payee_input # "" THEN payee_input ELSE cur.o.payee
                o == Resolved(args, existing_hashes, cur.row, cur.o.date, payee)
            IN  /\ payees' = IF payee_input # "" THEN Append(payees, payee) ELSE payees
                /\ learned' = IF payee_input # "" THEN Append(learned, payee) ELSE learned
                /\ cur' = [cur EXCEPT !.o = o, !.input = payee_input]
                /\ Settle(o, row_num)
    /\ UNCHANGED <<args, reader, row_num, runs, file, same_input, prev_ended, ledger0,
                   hash0, payee0, template_writes>>

(***************************************************************************)
(* Lines 255-256.                                                          *)
(***************************************************************************)
\* the hash written to the log and not added to the in-memory set
WriteHashForgets ==
    /\ pc = "hash"
    /\ hash_out' = Append(hash_out, cur.o.hash)
    /\ pc' = "rows"
    /\ UNCHANGED <<artifacts, args, reader, row_num, existing_hashes, payees, out, cur,
                   status, history>>

WriteHash ==
    /\ pc = "hash"
    /\ hash_out' = Append(hash_out, cur.o.hash)
    /\ existing_hashes' = existing_hashes \cup {cur.o.hash}
    /\ pc' = "rows"
    /\ UNCHANGED <<artifacts, args, reader, row_num, payees, out, cur, status, history>>

(***************************************************************************)
(* The end of the loop and lines 258-260.                                  *)
(***************************************************************************)
EndOfRows ==
    /\ pc = "rows"
    /\ reader = <<>>
    /\ CloseFiles
    /\ pc' = "finalize"
    /\ ended' = "exhausted"
    /\ UNCHANGED <<payee_file, config_file, args, reader, row_num, existing_hashes,
                   payees, cur, status, runs, file, same_input, prev_ended, ledger0,
                   hash0, payee0, learned, accepted, answers, template_writes,
                   payee_writes>>

\* the payee list written in the order it has in memory
PayeeLinesUnsorted(ps) == ps

\* lines 258-260: what the payee file holds afterwards
PayeeLines(ps) == SortedByLength(ps)

\* payees.sort(...) before the loop of line 259: the list itself is reordered
FinalizeSortsInPlace ==
    /\ pc = "finalize"
    /\ payee_file' = PayeeLines(payees)
    /\ payees' = SortedByLength(payees)
    /\ payee_writes' = payee_writes + 1
    /\ pc' = "idle"
    /\ status' = 0
    /\ UNCHANGED <<ledger_file, hash_file, config_file, args, reader, row_num,
                   existing_hashes, out, hash_out, cur, runs, file, same_input,
                   ended, prev_ended, ledger0, hash0, payee0, learned, accepted,
                   answers, template_writes>>

Finalize ==
    /\ pc = "finalize"
    /\ payee_file' = PayeeLines(payees)
    /\ payee_writes' = payee_writes + 1
    /\ pc' = "idle"
    /\ status' = 0
    /\ UNCHANGED <<ledger_file, hash_file, config_file, args, reader, row_num,
                   existing_hashes, payees, out, hash_out, cur, runs, file, same_input,
                   ended, prev_ended, ledger0, hash0, payee0, learned, accepted,
                   answers, template_writes>>

(***************************************************************************)
(* The environment: the config template is edited between two runs.        *)
(***************************************************************************)
EditConfig(c) ==
    /\ pc = "idle"
    /\ runs >= 1
    /\ runs < MaxRuns
    /\ c # config_file
    /\ c # NoConfig
    /\ config_file # NoConfig => c # Template
    /\ config_file' = c
    /\ UNCHANGED <<ledger_file, hash_file, payee_file, args, process, history>>

\* the inputs are drawn once the guard of the step holds
Answer == pc = "input" /\ \E r \in Responses : Respond(r)
Edit == pc = "idle" /\ \E c \in ConfigFiles : EditConfig(c)

Next ==
    \/ StartRun
    \/ ProcessRow
    \/ Answer
    \/ WriteHash
    \/ EndOfRows
    \/ Finalize
    \/ Edit

Spec == Init /\ [][Next]_vars

(***************************************************************************)
(* The same program with its buffering made visible: the data written to   *)
(* the two files sits in a buffer of the process until the buffer fills    *)
(* or the file is closed, and the process may be killed at any point.      *)
(***************************************************************************)
Running == pc \in {"rows", "input", "hash"}

\* the ledger's buffer is written out (which write fills it depends on sizes)
FlushLedger ==
    /\ Running
    /\ out # <<>>
    /\ ledger_file' = ledger_file \o out
    /\ out' = <<>>
    /\ UNCHANGED <<hash_file, payee_file, config_file, args, pc, reader, row_num,
                   existing_hashes, payees, hash_out, cur, status, history>>

FlushHashes ==
    /\ Running
    /\ hash_out # <<>>
    /\ hash_file' = hash_file \o hash_out
    /\ hash_out' = <<>>
    /\ UNCHANGED <<ledger_file, payee_file, config_file, args, pc, reader, row_num,
                   existing_hashes, payees, out, cur, status, history>>

\* SIGKILL: nothing runs any more, the buffers are lost
Kill ==
    /\ Running \/ pc = "finalize"
    /\ pc' = "idle"
    /\ status' = 137
    /\ ended' = "killed"
    /\ out' = <<>>
    /\ hash_out' = <<>>
    /\ UNCHANGED <<artifacts, args, reader, row_num, existing_hashes, payees, cur,
                   runs, file, same_input, prev_ended, ledger0, hash0, payee0,
                   learned, accepted, answers, template_writes, payee_writes>>

NextCrash ==
    \/ Next
    \/ FlushLedger
    \/ FlushHashes
    \/ Kill

\* one configuration: cleaning on, no payee learned yet, a template to copy
InitCrash ==
    /\ Init
    /\ args = [clean |-> TRUE, begin |-> 0, replace_comma |-> TRUE, skip |-> FALSE]
    /\ payee_file = <<>>
    /\ config_file = Template

SpecCrash == InitCrash /\ [][NextCrash]_vars

(***************************************************************************)
(* The same program started with a payee file that was edited by hand and  *)
(* holds a blank line (or with no payee file), cleaning on, no template.   *)
(***************************************************************************)
BlankLinePayeeFiles == { <<>>, <<"ab", "">> }

InitBlankLine ==
    /\ ledger_file = <<>>
    /\ hash_file = <<>>
    /\ payee_file \in BlankLinePayeeFiles
    /\ config_file = NoConfig
    /\ args = [clean |-> TRUE, begin |-> 0, replace_comma |-> TRUE, skip |-> FALSE]
    /\ pc = "idle"
    /\ reader = <<>>
    /\ row_num = 0
    /\ existing_hashes = {}
    /\ payees = <<>>
    /\ out = <<>>
    /\ hash_out = <<>>
    /\ cur = NoCur
    /\ status = -1
    /\ runs = 0
    /\ file = <<>>
    /\ same_input = FALSE
    /\ ended = "none"
    /\ prev_ended = "none"
    /\ ledger0 = <<>>
    /\ hash0 = <<>>
    /\ payee0 = payee_file
    /\ learned = <<>>
    /\ accepted = <<>>
    /\ answers = {}
    /\ template_writes = 0
    /\ payee_writes = 0

SpecBlankLine == InitBlankLine /\ [][Next]_vars

(***************************************************************************)
(* The vocabulary of the properties.                                       *)
(***************************************************************************)
\* what the files hold once everything written is flushed
Ledger == ledger_file \o out
HashLog == hash_file \o hash_out

EntryEnd == "\n\tExpenses:Unknown\n\n"

IsEntryBlock(chunk) ==
    /\ Len(chunk) >= Len(EntryEnd)
    /\ SubSeq(chunk, Len(chunk) - Len(EntryEnd) + 1, Len(chunk)) = EntryEnd

EntryBlocks(chunks) == SelectSeq(chunks, IsEntryBlock)

AcceptedEntries == [i \in 1..Len(accepted) |-> accepted[i].entry]
AcceptedHashes == [i \in 1..Len(accepted) |-> compute_hash(accepted[i].entry)]

\* the payees of the payee file as the run found it
Loaded == {str_strip(l) : l \in Range(payee0)}

NoRepeats(q) == \A i, j \in 1..Len(q) : q[i] = q[j] => i = j

Count(q, e) == Cardinality({i \in 1..Len(q) : q[i] = e})

Max(S) == CHOOSE m \in S : \A n \in S : n <= m

StopWords == {"quit", "exit", "stop"}

\* the rows of the input file that the loop enumerates
Enumerated == IF args.skip /\ file # <<>> THEN Tail(file) ELSE file

\* every entry the run accepted came from a row before row k, and the ledger
\* and the hash log on disk hold what they held plus exactly these entries
WritesOnlyBefore(k) ==
    /\ \A i \in 1..Len(accepted) : accepted[i].row < k
    /\ EntryBlocks(ledger_file) = EntryBlocks(ledger0) \o AcceptedEntries
    /\ hash_file = hash0 \o AcceptedHashes

(***************************************************************************)
(* C1 (as claimed): when a run that ended by exhaustion or by a graceful   *)
(* stop is followed by a run over the same input file, with the prompt     *)
(* giving the same answer for the same cleaned payee, the second run adds  *)
(* no entry block to the ledger and no line to the hash log.               *)
(***************************************************************************)
AnswersAgree == \A x, y \in answers : x[1] = y[1] => x[2] = y[2]

C1_Idempotent ==
    (/\ runs >= 2
     /\ same_input
     /\ prev_ended \in {"exhausted", "stopped"}
     /\ AnswersAgree)
    => /\ EntryBlocks(Ledger) = EntryBlocks(ledger0)
       /\ HashLog = hash0

(***************************************************************************)
(* C2: starting from an empty ledger and an empty hash log, after any      *)
(* sequence of runs that ended by exhaustion, graceful stop or fatal       *)
(* abort, no entry text is a block of the ledger more than once, and the   *)
(* hashes in the hash log are exactly the hashes of the ledger's blocks.   *)
(***************************************************************************)
C2_AtMostOnce ==
    pc = "idle"
    => /\ NoRepeats(EntryBlocks(ledger_file))
       /\ Range(hash_file) = {compute_hash(b) : b \in Range(EntryBlocks(ledger_file))}

C2_Witness ==
    /\ pc = "idle"
    /\ runs = 2
    /\ cur.o.kind = "dup"
    /\ Len(EntryBlocks(ledger_file)) >= 2

(***************************************************************************)
(* C3 (as claimed): in every state of a run, the number of entry blocks    *)
(* the run has added to the ledger on disk equals the number of lines it   *)
(* has added to the hash log on disk, and after a kill both equal the      *)
(* number of entries the run accepted.                                     *)
(***************************************************************************)
C3_CrashConsistent ==
    LET blocks == Len(EntryBlocks(ledger_file)) - Len(EntryBlocks(ledger0))
        lines == Len(hash_file) - Len(hash0)
    IN  /\ blocks = lines
        /\ ended = "killed" => blocks = Len(accepted)

(***************************************************************************)
(* C4: after a fatal validation failure on row k the exit status is not 0, *)
(* the payee file is what it was before the run (it was not written), and  *)
(* every entry accepted on the rows before k is in the ledger, its hash in *)
(* the hash log.                                                           *)
(***************************************************************************)
C4_FatalAbort ==
    (pc = "idle" /\ ended = "fatal")
    => /\ status # 0
       /\ cur.o.why \in {"date", "payee", "amount"}
       /\ payee_file = payee0
       /\ payee_writes = 0
       /\ WritesOnlyBefore(row_num)

C4_Witness ==
    /\ pc = "idle"
    /\ ended = "fatal"
    /\ accepted # <<>>
    /\ learned # <<>>

(***************************************************************************)
(* C5 (as claimed): when a row that is not skipped has an unparsable       *)
(* amount, the run ends with a nonzero status, and nothing is written for  *)
(* that row or a later one.                                                *)
(***************************************************************************)
\* the row last read is not skipped, and its amount field does not parse
LastRowHasBadAmount ==
    /\ row_num >= 1
    /\ cur.row # <<>>
    /\ row_num >= args.begin
    /\ RowViews[args][cur.row].date_field \notin {"", IndexError}
    /\ RowViews[args][cur.row].amount = ValueError

C5_FatalPropagation ==
    (pc = "idle" /\ runs >= 1 /\ LastRowHasBadAmount)
    => /\ status # 0
       /\ WritesOnlyBefore(row_num)

(***************************************************************************)
(* C5 (amended): when a row that is not skipped has an unparsable amount,  *)
(* the run ends at that row: with status 0 by a graceful stop when the     *)
(* answer to the prompt for that row is a sentinel, and with a nonzero     *)
(* status otherwise; either way nothing is written for that row or a later *)
(* one.                                                                    *)
(***************************************************************************)
C5_FatalUnlessStopped ==
    (pc = "idle" /\ runs >= 1 /\ LastRowHasBadAmount)
    => /\ IF cur.input \in StopWords
          THEN status = 0 /\ ended = "stopped"
          ELSE status # 0 /\ ended = "fatal"
       /\ WritesOnlyBefore(row_num)

C5_Witness ==
    /\ pc = "idle"
    /\ LastRowHasBadAmount
    /\ ended = "fatal"
    /\ cur.o.why = "amount"
    /\ row_num = 1
    /\ reader # <<>>

(***************************************************************************)
(* C6 (as claimed): when a candidate matches, the resolved payee is the    *)
(* last candidate, in dictionary order, among the candidates that are      *)
(* substrings of the cleaned payee.                                        *)
(***************************************************************************)
LastContained(ps, s) == ps[Max({i \in 1..Len(ps) : str_contains(ps[i], s)})]

TestedAgainst(ps, s, I, i) ==
    LET earlier == {j \in I : j < i}
    IN  IF earlier = {} THEN s ELSE ps[Max(earlier)]

\* I is the set of the candidates that match
IsMatchChain(ps, s, I) ==
    \A i \in 1..Len(ps) : i \in I <=> str_contains(ps[i], TestedAgainst(ps, s, I, i))

WrittenByRun == SubSeq(Ledger, Len(ledger0) + 1, Len(Ledger))

C7_TemplateGating ==
    runs >= 1
    => /\ ledger0 # <<>> => WrittenByRun = AcceptedEntries
       /\ ledger0 = <<>> =>
              \E c \in ConfigFiles : WrittenByRun = c.lines \o AcceptedEntries
       /\ (ledger0 = <<>> /\ pc # "idle") =>
              WrittenByRun = (IF config_file.exists THEN config_file.lines ELSE <<>>)
                             \o AcceptedEntries

C7_Witness ==
    /\ runs = 2
    /\ ledger0 # <<>>
    /\ config_file.exists
    /\ accepted # <<>>
    /\ pc = "idle"

(***************************************************************************)
(* C8: at the dedup check of a row the in-memory set holds the hashes read *)
(* from the hash log at the start and the hashes of the entries accepted   *)
(* earlier in the run, and nothing else; so no entry is accepted whose     *)
(* hash is in the hash log or whose text was accepted earlier in the run.  *)
(***************************************************************************)
C8_Dedup ==
    /\ pc \in {"rows", "input"} =>
           existing_hashes = {str_strip(l) : l \in Range(hash0)} \cup Range(AcceptedHashes)
    /\ \A i \in 1..Len(accepted) :
           /\ compute_hash(accepted[i].entry) \notin Range(hash0)
           /\ \A j \in 1..(i - 1) : accepted[j].entry # accepted[i].entry

C8_Witness ==
    /\ pc = "rows"
    /\ cur.o.kind = "dup"
    /\ \E i \in 1..Len(accepted) : accepted[i].entry = cur.o.entry
    /\ hash0 # <<>>

(***************************************************************************)
(* C9: an answer that is exactly "quit", "exit" or "stop" ends the run by  *)
(* a graceful stop: nothing is written for the row, the sentinel is not    *)
(* added to the payees, the rows after it are not read, the payee file is  *)
(* written and the status is 0.  An answer that differs in case is learned *)
(* as a payee.                                                             *)
(***************************************************************************)
C9_GracefulStop ==
    /\ cur.input \in StopWords <=> ended = "stopped"
    /\ (pc = "idle" /\ ended = "stopped") =>
           /\ status = 0
           /\ payee_writes = 1
           /\ WritesOnlyBefore(row_num)
           /\ reader = SubSeq(Enumerated, row_num + 1, Len(Enumerated))
           /\ Range(payee_file) \cap StopWords \subseteq Loaded
    /\ Range(payees) \cap StopWords \subseteq Loaded
    /\ cur.input = "Stop" =>
           /\ learned # <<>>
           /\ learned[Len(learned)] = "Stop"
           /\ payees[Len(payees)] = "Stop"
           /\ cur.o.payee = "Stop"

C9_Witness ==
    /\ pc = "idle"
    /\ ended = "stopped"
    /\ reader # <<>>
    /\ payee_file = payee0

(***************************************************************************)
(* C10: a run that ends by exhaustion or by a graceful stop writes the     *)
(* payee file once, and the file then holds the payees loaded at the start *)
(* and the payees learned by the run, each as often as it was learned, in  *)
(* non-increasing length; the file is not written before the run ends.     *)
(***************************************************************************)
C10_FinalizeContent ==
    /\ (pc = "idle" /\ ended \in {"exhausted", "stopped"}) =>
           /\ payee_writes = 1
           /\ IsLongestFirst(payee_file)
           /\ \A p \in Range(payee_file) \cup Loaded \cup Range(learned) :
                  Count(payee_file, p) = (IF p \in Loaded THEN 1 ELSE 0) + Count(learned, p)
    /\ (pc # "idle" /\ runs >= 1) =>
           /\ payee_writes = 0
           /\ payee_file = payee0

C10_Witness ==
    /\ pc = "idle"
    /\ ended = "exhausted"
    /\ payee0 # <<>>
    /\ Len(learned) >= 2

(***************************************************************************)
(* More vocabulary: what a step of the row loop is about.                  *)
(***************************************************************************)
IsPrefix(p, q) == Len(p) <= Len(q) /\ SubSeq(q, 1, Len(p)) = p

\* the row the loop reads next, and its number
NextRow == Head(reader)
NextRowNum == row_num + 1

\* the row is empty, or before the start offset, or its date field is empty
IsSkipped(row, rn) ==
    \/ row = <<>>
    \/ rn < args.begin
    \/ RowViews[args][row].date_field = ""

\* the row gets as far as the scan of the dictionary
ReachesMatcher(row, rn) ==
    /\ ~IsSkipped(row, rn)
    /\ RowViews[args][row].date_field # IndexError
    /\ RowViews[args][row].date # ValueError
    /\ RowViews[args][row].raw_payee # ""

\* some candidate of the dictionary is a substring of s
SomeCandidateIn(ps, s) == \E i \in 1..Len(ps) : str_contains(ps[i], s)

\* the step reads a row / answers the prompt
ReadsRow == pc = "rows" /\ reader # <<>> /\ row_num' = row_num + 1
AnswersPrompt == pc = "input" /\ pc' # "input"

\* the row being processed gets the entry with this payee, if it gets one
RowEntryHasPayee(payee) ==
    /\ cur'.o.payee = payee
    /\ cur'.o.kind \in {"emit", "dup"} =>
           cur'.o.entry = EntryText(cur.o.date, payee, RowViews[args][cur.row].amount)
    /\ pc' = "hash" => out' = Append(out, cur'.o.entry)

(***************************************************************************)
(* C11: the prompt is invoked for a row exactly when the row reaches the   *)
(* matcher and no candidate of the dictionary matched; an answer that is   *)
(* neither empty nor a sentinel becomes the payee of the row's entry and   *)
(* the last element of the dictionary; an empty answer makes the cleaned   *)
(* payee the payee of the row's entry and leaves the dictionary as it is.  *)
(***************************************************************************)
C11_Step ==
    /\ ReadsRow =>
           (pc' = "input" <=>
               /\ ReachesMatcher(NextRow, NextRowNum)
               /\ ~SomeCandidateIn(payees, RowViews[args][NextRow].payee))
    /\ AnswersPrompt =>
           /\ cur'.input # NoInput
           /\ (cur'.input # "" /\ cur'.input \notin StopWords) =>
                  /\ payees' = Append(payees, cur'.input)
                  /\ RowEntryHasPayee(cur'.input)
           /\ cur'.input = "" =>
                  /\ payees' = payees
                  /\ RowEntryHasPayee(cur.cleaned)

C11_Resolution == [][C11_Step]_vars

C11_Witness ==
    /\ pc = "hash"
    /\ cur.input = "b"
    /\ Len(payees) >= 4
    /\ payees[Len(payees)] = "b"
    /\ \E x \in answers : x[2] = ""

(***************************************************************************)
(* C12 (as claimed): every entry block of the ledger has a non-empty       *)
(* payee, whatever the rows, the payee file, and the answers are.          *)
(***************************************************************************)
\* the payee of an entry block: the text between the date and the line's end
EntryPayee(entry) == SubSeq(entry, Len("2024/01/05 ") + 1, FindChar(entry, "\n", 1) - 1)

C12_EntryValid == \A i \in 1..Len(Ledger) : IsEntryBlock(Ledger[i]) => EntryPayee(Ledger[i]) # ""

(***************************************************************************)
(* C13: during a run, what the ledger and the hash log held before the run *)
(* is a prefix of what they hold; the entry blocks the run added are those *)
(* of the accepted rows, in the order of the rows in the input; and the    *)
(* i-th hash line the run added is the digest of the i-th entry block it   *)
(* added.                                                                  *)
(***************************************************************************)
AddedBlocks == EntryBlocks(WrittenByRun)
AddedHashes == SubSeq(HashLog, Len(hash0) + 1, Len(HashLog))

\* the entry is the one of row rn of the input, with some payee for it
IsEntryOfRow(entry, rn) ==
    /\ rn \in 1..Len(Enumerated)
    /\ LET v == RowViews[args][Enumerated[rn]]
       IN  \E p \in Range(payees) \cup {v.payee} : entry = EntryText(v.date, p, v.amount)

C13_AppendOnly ==
    runs >= 1
    => /\ IsPrefix(ledger0, ledger_file)
       /\ IsPrefix(hash0, hash_file)
       /\ IsPrefix(ledger_file, Ledger)
       /\ IsPrefix(hash_file, HashLog)
       /\ Len(AddedBlocks) = Len(accepted)
       /\ \A i \in 1..Len(AddedBlocks) : IsEntryOfRow(AddedBlocks[i], accepted[i].row)
       /\ \A i, j \in 1..Len(accepted) : i < j => accepted[i].row < accepted[j].row
       /\ Len(AddedHashes) = (IF pc = "hash" THEN Len(AddedBlocks) - 1 ELSE Len(AddedBlocks))
       /\ \A i \in 1..Len(AddedHashes) : AddedHashes[i] = compute_hash(AddedBlocks[i])

C13_Witness ==
    /\ runs = 2
    /\ EntryBlocks(ledger0) # <<>>
    /\ Len(AddedHashes) = 2
    /\ AddedBlocks[1] # AddedBlocks[2]
    /\ pc = "idle"

(***************************************************************************)
(* C14: a row that is empty, or whose number is below the start offset, or *)
(* whose date field is empty after trimming, is skipped: whatever its      *)
(* other fields are, the run does not end, the prompt is not invoked, the  *)
(* dictionary, the set of hashes, the ledger and the hash log stay as they *)
(* are, and the loop goes on with the next row.                            *)
(***************************************************************************)
C14_Step ==
    (ReadsRow /\ IsSkipped(NextRow, NextRowNum))
    => /\ pc' = "rows"
       /\ reader' = Tail(reader)
       /\ UNCHANGED <<status, ended, payees, learned, answers, existing_hashes,
                      accepted, out, hash_out, ledger_file, hash_file, payee_file>>

C14_SkippedInert == [][C14_Step]_vars

\* a row with an empty date, an empty payee and no amount was skipped, and
\* the row after it made an entry
C14_Witness ==
    /\ args.begin = 0
    /\ file # <<>>
    /\ file[1] = <<" ", "", "x">>
    /\ row_num = 2
    /\ Len(accepted) = 1
    /\ accepted[1].row = 2

(***************************************************************************)
(* C15: in every step of a run the dictionary before the step is a prefix  *)
(* of the dictionary after it, and the only step that extends it is an     *)
(* answer to the prompt that is neither empty nor a sentinel, which is     *)
(* appended.                                                               *)
(***************************************************************************)
C15_Step ==
    pc # "idle"
    => /\ IsPrefix(payees, payees')
       /\ payees' # payees =>
              /\ AnswersPrompt
              /\ cur'.input # ""
              /\ cur'.input \notin StopWords
              /\ payees' = Append(payees, cur'.input)

C15_AppendOnly == [][C15_Step]_vars

\* a run that loaded payees and learned two more has ended
C15_Witness ==
    /\ pc = "idle"
    /\ runs >= 1
    /\ Len(learned) = 2
    /\ Len(payees) >= 5
    /\ ~IsLongestFirst(payees)

(***************************************************************************)
(* C16 (as claimed): whenever the matcher scans the dictionary for a row,  *)
(* the dictionary is in non-increasing order of length.                    *)
(***************************************************************************)
AtScan == pc = "rows" /\ reader # <<>> /\ ReachesMatcher(NextRow, NextRowNum)

C16_LongestFirstAtMatch == AtScan => IsLongestFirst(payees)

(***************************************************************************)
(* C16 (amended): whenever the matcher scans the dictionary for a row, the *)
(* dictionary is the payees loaded from the payee file, each once and in   *)
(* non-increasing order of length, followed by the payees learned so far   *)
(* in this run, in the order they were learned; so it is longest-first     *)
(* as long as nothing was learned.                                         *)
(***************************************************************************)
LoadedPart == SubSeq(payees, 1, Len(payees) - Len(learned))
LearnedPart == SubSeq(payees, Len(payees) - Len(learned) + 1, Len(payees))

C16_LoadedSortedThenLearned ==
    AtScan
    => /\ Len(payees) = Cardinality(Loaded) + Len(learned)
       /\ Range(LoadedPart) = Loaded
       /\ IsLongestFirst(LoadedPart)
       /\ LearnedPart = learned
       /\ learned = <<>> => IsLongestFirst(payees)

C16_Witness ==
    /\ AtScan
    /\ Len(LoadedPart) = 3
    /\ learned = <<"Stop">>
    /\ ~IsLongestFirst(payees)

(***************************************************************************)
(* C17: the stages of a row run in the order date, raw payee, cleaning,    *)
(* match or prompt, amount, hash, dedup check, write: the first stage that *)
(* fails decides how the row ends, whatever the later stages would find.   *)
(* For a row with an unmatched payee and an unparsable amount the prompt   *)
(* is invoked first: a sentinel ends the run by a graceful stop with       *)
(* Finalize, any other answer is followed by the fatal exit, a payee       *)
(* learned from it being in the dictionary in memory and not in the file.  *)
(***************************************************************************)
\* the row read last, when it was not skipped
LastView == RowViews[args][cur.row]
LastProcessed ==
    /\ row_num >= 1
    /\ ~IsSkipped(cur.row, row_num)
    /\ LastView.date_field # IndexError

Prompted == cur.input # NoInput
FatalAt(why) == ended = "fatal" /\ cur.o.why = why /\ pc = "idle" /\ status # 0

C17_StageOrder ==
    (runs >= 1 /\ LastProcessed)
    => /\ LastView.date = ValueError => (FatalAt("date") /\ ~Prompted)
       /\ (LastView.date # ValueError /\ LastView.raw_payee = "") =>
              (FatalAt("payee") /\ ~Prompted)
       /\ (LastView.date # ValueError /\ LastView.raw_payee # "") =>
              /\ cur.cleaned = CleanPayee(args, LastView.raw_payee)
              /\ cur.found = SomeCandidateIn(LoadedPart \o
                                  (IF Prompted /\ cur.input \notin StopWords \cup {""}
                                   THEN SubSeq(learned, 1, Len(learned) - 1)
                                   ELSE learned),
                                  cur.cleaned)
              /\ cur.found => ~Prompted
              /\ (~cur.found /\ ~Prompted) => pc = "input"
              /\ (Prompted /\ cur.input \in StopWords) =>
                     /\ ended = "stopped"
                     /\ pc \in {"finalize", "idle"}
                     /\ pc = "idle" => (status = 0 /\ payee_writes = 1)
              /\ (LastView.amount = ValueError /\ (cur.found \/ Prompted)
                    /\ cur.input \notin StopWords) =>
                     /\ FatalAt("amount")
                     /\ payee_file = payee0
                     /\ cur.input \notin {"", NoInput} =>
                            /\ learned # <<>>
                            /\ learned[Len(learned)] = cur.input
                            /\ payees[Len(payees)] = cur.input
              /\ cur.o.kind \in {"dup", "emit"} =>
                     /\ LastView.amount \notin {ValueError, IndexError}
                     /\ cur.o.entry = EntryText(LastView.date, cur.o.payee, LastView.amount)
                     /\ cur.o.hash = compute_hash(cur.o.entry)
              /\ cur.o.kind = "dup" => \A i \in 1..Len(accepted) : accepted[i].row # row_num
              /\ cur.o.kind = "emit" =>
                     /\ accepted # <<>>
                     /\ accepted[Len(accepted)] = [row |-> row_num, entry |-> cur.o.entry]

\* the prompt was answered with a payee on a row whose amount does not parse
C17_Witness ==
    /\ FatalAt("amount")
    /\ cur.input = "b"
    /\ learned = <<"b">>
    /\ payee_file = payee0
    /\ "b" \notin Range(payee_file)

(***************************************************************************)
(* C18 (as claimed): at every point of a run no payee occurs twice in the  *)
(* dictionary, and none occurs twice in the payee file that Finalize       *)
(* writes.                                                                 *)
(***************************************************************************)
C18_NoDuplicatePayees ==
    /\ NoRepeats(payees)
    /\ payee_writes = 1 => NoRepeats(payee_file)

====
